---- MODULE Spec2Model ----
(***************************************************************************)
(* State-machine model of src/app.py (the "SOP v8.0" Streamlit script):    *)
(* one submitted diagnosis run, from the FinMind frames to the two-leg     *)
(* trade plan.                                                             *)
(*                                                                         *)
(* Numbers.  Python floats are modelled as exact rationals <<n, d>> in     *)
(* lowest terms with d > 0; <<0, 0>> stands for NaN.  Binary rounding      *)
(* error of the floats is therefore not modelled.                          *)
(*                                                                         *)
(* Frames.  A pandas DataFrame is a sequence of records (rows); a row      *)
(* Series is a record whose DOMAIN is the column set at the time the row   *)
(* was taken.                                                              *)
(***************************************************************************)
EXTENDS Integers, Sequences, FiniteSets, TLC

(***************************************************************************)
(* Rational arithmetic                                                     *)
(***************************************************************************)
Abs(x) == IF x < 0 THEN -x ELSE x

RECURSIVE GCD(_, _)
GCD(a, b) == IF b = 0 THEN a ELSE GCD(b, a % b)

Rat(n, d) ==
    LET g == GCD(Abs(n), Abs(d))
        s == IF d < 0 THEN -1 ELSE 1
    IN  <<(s * n) \div g, (s * d) \div g>>

NaN == <<0, 0>>
IsNaN(a) == a[2] = 0
R(i) == <<i, 1>>

RAdd(a, b) == IF IsNaN(a) \/ IsNaN(b) THEN NaN
              ELSE Rat(a[1] * b[2] + b[1] * a[2], a[2] * b[2])
RNeg(a)    == <<-a[1], a[2]>>
RSub(a, b) == RAdd(a, RNeg(b))
RMul(a, b) == IF IsNaN(a) \/ IsNaN(b) THEN NaN
              ELSE Rat(a[1] * b[1], a[2] * b[2])
RDiv(a, b) == IF IsNaN(a) \/ IsNaN(b) \/ b[1] = 0 THEN NaN
              ELSE Rat(a[1] * b[2], a[2] * b[1])

\* Comparisons; as for IEEE floats, every comparison with NaN is false.
RLt(a, b) == ~IsNaN(a) /\ ~IsNaN(b) /\ a[1] * b[2] < b[1] * a[2]
RGt(a, b) == RLt(b, a)
RLe(a, b) == ~IsNaN(a) /\ ~IsNaN(b) /\ a[1] * b[2] <= b[1] * a[2]
RGe(a, b) == RLe(b, a)

\* Python's max(a, b): a unless b > a.
PyMax(a, b) == IF RGt(b, a) THEN b ELSE a

Floor(a) == a[1] \div a[2]

\* Python 3's round(x) on a float: to the nearest integer, ties to even.
PyRound(a) ==
    LET f == Floor(a)
        r == a[1] - f * a[2]
    IN  IF 2 * r < a[2] THEN f
        ELSE IF 2 * r > a[2] THEN f + 1
        ELSE IF f % 2 = 0 THEN f ELSE f + 1

\* Python's int(x) on a float: truncation toward zero.
PyInt(a) == IF a[1] >= 0 THEN a[1] \div a[2] ELSE -((-a[1]) \div a[2])

RECURSIVE SumSeq(_)
SumSeq(s) == IF s = <<>> THEN R(0) ELSE RAdd(s[1], SumSeq(Tail(s)))

RECURSIVE MaxSeq(_)
MaxSeq(s) == IF Len(s) = 1 THEN s[1] ELSE PyMax(s[1], MaxSeq(Tail(s)))

Min(a, b) == IF a < b THEN a ELSE b

\* df.tail(k) / Series.tail(k)
TailK(s, k) == SubSeq(s, Len(s) - Min(k, Len(s)) + 1, Len(s))

(***************************************************************************)
(* safe_float: text to float                                               *)
(* A text is a sequence of one-character strings; PyNone is Python's None. *)
(***************************************************************************)
PyNone == <<"<None>">>

Digits == {"0", "1", "2", "3", "4", "5", "6", "7", "8", "9"}

DigitVal(c) ==
    CASE c = "0" -> 0 [] c = "1" -> 1 [] c = "2" -> 2 [] c = "3" -> 3
      [] c = "4" -> 4 [] c = "5" -> 5 [] c = "6" -> 6 [] c = "7" -> 7
      [] c = "8" -> 8 [] c = "9" -> 9

\* str.strip()
RECURSIVE LStrip(_)
LStrip(s) == IF s # <<>> /\ s[1] = " " THEN LStrip(Tail(s)) ELSE s
RECURSIVE RStrip(_)
RStrip(s) == IF s # <<>> /\ s[Len(s)] = " " THEN RStrip(SubSeq(s, 1, Len(s) - 1)) ELSE s
Strip(s) == RStrip(LStrip(s))

\* str.replace(",", "")
DropCommas(s) == SelectSeq(s, LAMBDA c : c # ",")

RECURSIVE DigitsValue(_)
DigitsValue(s) == IF s = <<>> THEN 0
                  ELSE 10 * DigitsValue(SubSeq(s, 1, Len(s) - 1)) + DigitVal(s[Len(s)])

RECURSIVE Pow10(_)
Pow10(k) == IF k = 0 THEN 1 ELSE 10 * Pow10(k - 1)

AllDigits(s) == \A i \in 1..Len(s) : s[i] \in Digits

\* float(text) for decimal literals [sign] digits [. digits]; anything else
\* raises ValueError, reported here as NaN-with-flag <<FALSE, _>>.
ParseFloat(s0) ==
    LET s    == Strip(s0)
        neg  == s # <<>> /\ s[1] = "-"
        body == IF s # <<>> /\ s[1] \in {"-", "+"} THEN Tail(s) ELSE s
        dots == {i \in 1..Len(body) : body[i] = "."}
        ip   == IF dots = {} THEN body
                ELSE SubSeq(body, 1, (CHOOSE i \in dots : TRUE) - 1)
        fp   == IF dots = {} THEN <<>>
                ELSE SubSeq(body, (CHOOSE i \in dots : TRUE) + 1, Len(body))
        ok   == /\ Cardinality(dots) <= 1
                /\ AllDigits(ip) /\ AllDigits(fp)
                /\ Len(ip) + Len(fp) > 0
        mag  == Rat(DigitsValue(ip) * Pow10(Len(fp)) + DigitsValue(fp), Pow10(Len(fp)))
    IN  IF ok THEN <<TRUE, IF neg THEN RNeg(mag) ELSE mag>> ELSE <<FALSE, NaN>>

SafeFloatBlank == {<<"-">>, <<>>, <<"N", "o", "n", "e">>, <<"n", "a", "n">>}

\* safe_float(x, default=0.0) applied to a text (or None)
safe_float(x) ==
    IF x = PyNone \/ Strip(x) \in SafeFloatBlank THEN R(0)
    ELSE LET p == ParseFloat(DropCommas(x))
         IN  IF p[1] THEN p[2] ELSE R(0)

(***************************************************************************)
(* tick_size / round_to_tick                                               *)
(***************************************************************************)
tick_size(p) ==
    IF RGe(p, R(1000)) THEN R(5)
    ELSE IF RGe(p, R(500)) THEN R(1)
    ELSE IF RGe(p, R(100)) THEN Rat(1, 2)
    ELSE IF RGe(p, R(50)) THEN Rat(1, 10)
    ELSE IF RGe(p, R(10)) THEN Rat(1, 100)
    ELSE Rat(1, 1000)

round_to_tick(x, t) ==
    IF IsNaN(x) \/ t = R(0) THEN R(0)
    ELSE RMul(R(PyRound(RDiv(x, t))), t)

(***************************************************************************)
(* get_detailed_market_status                                              *)
(* The wall clock is [today, weekday, minute]: the Taipei date (a day      *)
(* number, as the bars' dates), weekday 0..6 (Monday = 0) and the minute   *)
(* of the day.                                                             *)
(***************************************************************************)
HHMM(h, m) == 60 * h + m

get_detailed_market_status(clock, last_trade_date) ==
    IF clock.weekday >= 5 THEN "CLOSED_WEEKEND"
    ELSE IF clock.today # last_trade_date /\ clock.minute > HHMM(10, 0)
         THEN "CLOSED_HOLIDAY"
    ELSE IF clock.minute < HHMM(9, 0) THEN "PRE_MARKET"
    ELSE IF HHMM(9, 0) <= clock.minute /\ clock.minute <= HHMM(13, 35) THEN "OPEN"
    ELSE "POST_MARKET"

\* "CLOSED" in m_code
HasClosed(code) == code \in {"CLOSED_WEEKEND", "CLOSED_HOLIDAY"}

(***************************************************************************)
(* Data cleaning (lines 106-114)                                           *)
(***************************************************************************)
\* Columns renamed by `mapping`, `amount` derived (the provider's frame has
\* no Trading_Money column), values already numeric.
RenameRow(r) ==
    [date   |-> r.date,
     close  |-> r.close,
     high   |-> r.max,
     low    |-> r.min,
     vol    |-> r.Trading_Volume,
     amount |-> RMul(RMul(r.close, R(r.Trading_Volume)), R(1000))]

KeepRow_Mutant(r) == r.vol >= 0
\* df = df[df['vol'] > 0]
KeepRow(r) == r.vol > 0

CleanRows(raw) ==
    SelectSeq([i \in 1..Len(raw) |-> RenameRow(raw[i])], KeepRow)

(***************************************************************************)
(* Indicators (lines 121-127)                                              *)
(***************************************************************************)
Column(frame, c) == [i \in 1..Len(frame) |-> frame[i][c]]

\* Series.rolling(win).mean(): NaN until `win` rows are available.
RollingMean(col, win) ==
    [i \in 1..Len(col) |->
        IF i < win THEN NaN
        ELSE RDiv(SumSeq(SubSeq(col, i - win + 1, i)), R(win))]

\* Series.diff(): NaN on the first row.
Diff(col) == [i \in 1..Len(col) |-> IF i = 1 THEN NaN ELSE RSub(col[i], col[i - 1])]

Direction_Mutant(d) == IF RGt(d, R(0)) THEN 1 ELSE IF RLe(d, R(0)) THEN -1 ELSE 0
\* np.where(diff > 0, 1, np.where(diff < 0, -1, 0))
Direction(d) == IF RGt(d, R(0)) THEN 1 ELSE IF RLt(d, R(0)) THEN -1 ELSE 0

RECURSIVE CumSum(_)
CumSum(s) ==
    IF s = <<>> THEN <<>>
    ELSE LET init == CumSum(SubSeq(s, 1, Len(s) - 1))
         IN  Append(init, (IF init = <<>> THEN 0 ELSE init[Len(init)]) + s[Len(s)])

OBVColumn(frame) ==
    LET d == Diff(Column(frame, "close"))
    IN  CumSum([i \in 1..Len(frame) |-> Direction(d[i]) * frame[i].vol])

ToR(col) == [i \in 1..Len(col) |-> R(col[i])]

\* The frame with the six indicator columns attached.
WithIndicators(frame) ==
    LET n      == Len(frame)
        win    == Min(20, n)
        ma20   == RollingMean(Column(frame, "close"), win)
        ma20v  == RollingMean(ToR(Column(frame, "vol")), win)
        ma20a  == RollingMean([i \in 1..n |-> RDiv(frame[i].amount, R(100000000))], win)
        atr14  == RollingMean([i \in 1..n |-> RSub(frame[i].high, frame[i].low)], Min(14, n))
        obv    == OBVColumn(frame)
        obvma  == RollingMean(ToR(obv), Min(10, n))
    IN  [i \in 1..n |->
            [date |-> frame[i].date, close |-> frame[i].close, high |-> frame[i].high,
             low |-> frame[i].low, vol |-> frame[i].vol, amount |-> frame[i].amount,
             MA20 |-> ma20[i], MA20_Vol |-> ma20v[i], MA20_Amount |-> ma20a[i],
             ATR14 |-> atr14[i], OBV |-> obv[i], OBV_MA10 |-> obvma[i]]]

\* Series.get(key): the value, or None when the row has no such column.
RowGet(row, key) == IF key \in DOMAIN row THEN row[key] ELSE PyNone

\* safe_float(row.get(key)) for a row of floats
RowFloat(row, key) == IF RowGet(row, key) = PyNone THEN R(0) ELSE row[key]

(***************************************************************************)
(* Live quote (lines 130-145)                                              *)
(* The exchange's answer is [kind |-> "fail"] (the request or the JSON     *)
(* parse raises) or [kind |-> "json", msgArray |-> <<info, ...>>], each    *)
(* info a record of texts.                                                 *)
(***************************************************************************)
\* Python's `a or b` on floats: a when a is truthy (non-zero), else b.
PyOr(a, b) == IF a # R(0) THEN a ELSE b

\* What the block leaves in (rt_success, current_price, rt_diff, current_vol).
LiveQuote(code, answer, last_row) ==
    LET fallback == [rt_success    |-> FALSE,
                     current_price |-> last_row.close,
                     rt_diff       |-> R(0),
                     current_vol   |-> R(last_row.vol)]
    IN  IF HasClosed(code) THEN fallback
        ELSE IF answer.kind = "fail" THEN fallback
        ELSE IF answer.msgArray = <<>> THEN fallback
        ELSE LET info == answer.msgArray[1]
                 z    == PyOr(safe_float(RowGet(info, "z")), safe_float(RowGet(info, "y")))
             IN  IF z # R(0)
                 THEN [rt_success    |-> TRUE,
                       current_price |-> z,
                       rt_diff       |-> RSub(z, safe_float(RowGet(info, "y"))),
                       current_vol   |-> safe_float(RowGet(info, "v"))]
                 ELSE fallback

(***************************************************************************)
(* Step 8: diagnosis score (lines 148-209)                                 *)
(***************************************************************************)
\* df_inst rows are [name, buy, sell]; net = (buy - sell) / 1000, summed over
\* the last five rows of one investor.
Net5d(inst, who) ==
    LET rows == TailK(SelectSeq(inst, LAMBDA r : r.name = who), 5)
    IN  SumSeq([i \in 1..Len(rows) |-> Rat(rows[i].buy - rows[i].sell, 1000)])

ChipScore(inst) ==
    IF inst = <<>> THEN 0
    ELSE LET trust_5d   == Net5d(inst, "Investment_Trust")
             foreign_5d == Net5d(inst, "Foreign_Investor")
         IN  IF RGt(trust_5d, R(100)) /\ RGt(foreign_5d, R(500)) THEN 2
             ELSE IF RGt(trust_5d, R(50)) THEN 1
             ELSE IF RLt(trust_5d, R(-100)) THEN -1
             ELSE 0

\* df_margin is the MarginPurchaseLimit column.
MarginScore(margin) ==
    IF margin = <<>> THEN 0
    ELSE LET margin_1d == IF Len(margin) > 1
                          THEN margin[Len(margin)] - margin[Len(margin) - 1] ELSE 0
         IN  IF margin_1d < 0 THEN 1 ELSE IF margin_1d > 800 THEN -1 ELSE 0

\* df_rev rows may or may not carry the two growth-rate columns.
RevenueScore(rev) ==
    IF rev = <<>> THEN 0
    ELSE LET last    == rev[Len(rev)]
             rev_yoy == RowFloat(last, "revenue_year_growth_rate")
             rev_mom == RowFloat(last, "revenue_month_growth_rate")
         IN  IF RGt(rev_yoy, R(20)) /\ RGt(rev_mom, R(0)) THEN 1
             ELSE IF RGt(rev_yoy, R(20)) THEN 1
             ELSE 0

\* df_per rows, columns upper-cased; the first of PE, PER, P/E present.
PEScore(per) ==
    IF per = <<>> THEN 0
    ELSE LET last == per[Len(per)]
             cols == {c \in {"PE", "PER", "P/E"} : c \in DOMAIN last}
         IN  IF cols = {} THEN 0
             ELSE LET pe_col     == IF "PE" \in cols THEN "PE"
                                    ELSE IF "PER" \in cols THEN "PER" ELSE "P/E"
                      current_pe == last[pe_col]
                  IN  IF RLt(R(0), current_pe) /\ RLt(current_pe, R(20)) THEN 1 ELSE 0

\* The run raises IndexError at df["MA20"].iloc[-5] or df.iloc[-6].
RaisesIndexError(frame, index) ==
    \/ Len(frame) < 5
    \/ Len(index) > 5 /\ Len(frame) < 6

TechScore(frame, last_row, price, volume) ==
    LET ma20_val   == RowFloat(last_row, "MA20")
        avg_vol_20 == RowFloat(last_row, "MA20_Vol")
        vol_ratio  == IF RGt(avg_vol_20, R(0)) THEN RDiv(volume, avg_vol_20) ELSE R(1)
        slope_up   == RGt(ma20_val, frame[Len(frame) - 4].MA20)
        obv_up     == RGt(IF "OBV" \in DOMAIN last_row THEN R(last_row.OBV) ELSE R(0),
                          IF "OBV_MA10" \in DOMAIN last_row THEN last_row.OBV_MA10 ELSE R(0))
    IN  (IF RGt(vol_ratio, Rat(3, 2)) THEN 1 ELSE 0)
        + (IF slope_up THEN 1 ELSE 0)
        + (IF obv_up THEN 1 ELSE 0)

\* ((now - then) / then) * 100
PctChange(cur, ref) == RMul(RDiv(RSub(cur, ref), ref), R(100))

RSScore(frame, index, price) ==
    IF index = <<>> THEN 0
    ELSE LET idx_curr == index[Len(index)].close
             idx_5d   == IF Len(index) > 5
                         THEN PctChange(idx_curr, index[Len(index) - 5].close) ELSE R(0)
             stock_5d == IF Len(index) > 5
                         THEN PctChange(price, frame[Len(frame) - 5].close) ELSE R(0)
         IN  IF RGt(stock_5d, idx_5d) THEN 1 ELSE 0

Score(frame, last_row, price, volume, inst, margin, rev, per, index) ==
    ChipScore(inst) + MarginScore(margin) + RevenueScore(rev) + PEScore(per)
    + TechScore(frame, last_row, price, volume) + RSScore(frame, index, price)

Bias20(last_row, price) ==
    LET ma20_val == RowFloat(last_row, "MA20")
    IN  IF ma20_val # R(0) THEN RMul(RDiv(RSub(price, ma20_val), ma20_val), R(100)) ELSE R(0)

\* pivot = float(df.tail(252)["high"].max())
Pivot(frame) == MaxSeq(Column(TailK(frame, 252), "high"))

(***************************************************************************)
(* Step 9: conclusion (lines 212-222)                                      *)
(***************************************************************************)
ActionText(price, pivot, bias_20, sc) ==
    LET is_breaking     == RGe(price, pivot)
        is_pulling_back == RLe(R(0), bias_20) /\ RLe(bias_20, R(3))
    IN  IF is_breaking
        THEN (IF sc >= 5 THEN "strong breakout"
              ELSE IF sc >= 3 THEN "breakout attack" ELSE "weak breakout")
        ELSE IF is_pulling_back
        THEN (IF sc >= 4 THEN "golden buy" ELSE "watch pullback")
        ELSE "consolidation"

Action_Mutant(price, pivot, bias_20, sc, code) ==
    [text |-> ActionText(price, pivot, bias_20, sc),
     closed_prefix |-> code = "CLOSED_WEEKEND"]
\* The conclusion, prefixed on a closed market (line 222).
Action(price, pivot, bias_20, sc, code) ==
    [text |-> ActionText(price, pivot, bias_20, sc), closed_prefix |-> HasClosed(code)]

(***************************************************************************)
(* Trade plan (lines 256-275)                                              *)
(***************************************************************************)
EffectiveATR_Mutant(atr14, price) == atr14
\* atr = max(ATR14, current_price * 0.025)
EffectiveATR(atr14, price) == PyMax(atr14, RMul(price, Rat(25, 1000)))

\* int(risk_amt / (dist * 1000)) if dist > 0 else 0
Lots(risk_amt, dist) ==
    IF RGt(dist, R(0)) THEN PyInt(RDiv(risk_amt, RMul(dist, R(1000)))) ELSE 0

TradePlan(last_row, price, pivot, sc, capital, risk_pct) ==
    LET t        == tick_size(price)
        atr      == EffectiveATR(RowFloat(last_row, "ATR14"), price)
        ma20_val == RowFloat(last_row, "MA20")
        risk_amt == RMul(R(capital * 10000), RDiv(risk_pct, R(100)))
        entry    == round_to_tick(RAdd(pivot, PyMax(RMul(Rat(2, 10), atr), t)), t)
        stop     == round_to_tick(RSub(entry, atr), t)
        target   == round_to_tick(
                        RAdd(entry, RMul(IF sc >= 5 THEN R(3) ELSE R(2), atr)), t)
        pb_l     == round_to_tick(PyMax(ma20_val, RSub(price, RMul(Rat(8, 10), atr))), t)
        pb_h     == round_to_tick(
                        PyMax(RAdd(pb_l, t), RSub(price, RMul(Rat(2, 10), atr))), t)
        pb_s     == round_to_tick(RSub(pb_l, RMul(Rat(12, 10), atr)), t)
    IN  [t |-> t, atr |-> atr, risk_amt |-> risk_amt,
         entry |-> entry, stop |-> stop, target |-> target,
         lots_brk |-> Lots(risk_amt, RSub(entry, stop)),
         pb_l |-> pb_l, pb_h |-> pb_h, pb_s |-> pb_s, pb_target |-> pivot,
         lots_pb |-> Lots(risk_amt, RSub(pb_h, pb_s))]

(***************************************************************************)
(* Inputs of a run                                                         *)
(***************************************************************************)
\* Longest daily frame the provider returns, and the most zero-volume
\* placeholder rows in it.
MaxBars == 6
MaxPlaceholders == 1

\* Trading-day rows as the provider names their columns.
TradingBars ==
    {[close |-> R(95), max |-> Rat(999, 10), min |-> R(94), Trading_Volume |-> 200],
     [close |-> R(94), max |-> R(95), min |-> R(93), Trading_Volume |-> 100]}

\* A non-trading placeholder row.
PlaceholderBars ==
    {[close |-> R(96), max |-> R(96), min |-> R(96), Trading_Volume |-> 0]}

\* Frames of up to MaxBars rows, dated 1, 2, ... in order.
\* Undated frames of n rows with at most k placeholder rows.
RECURSIVE FramesOfLength(_, _)
FramesOfLength(n, k) ==
    IF n = 0 THEN {<<>>}
    ELSE {Append(g, b) : g \in FramesOfLength(n - 1, k), b \in TradingBars}
         \cup (IF k = 0 THEN {}
               ELSE {Append(g, b) : g \in FramesOfLength(n - 1, k - 1),
                                    b \in PlaceholderBars})

DatedFrame(g) ==
    [i \in DOMAIN g |->
        [date |-> i, close |-> g[i].close, max |-> g[i].max,
         min |-> g[i].min, Trading_Volume |-> g[i].Trading_Volume]]

DailyFrames ==
    UNION {{DatedFrame(g) : g \in FramesOfLength(n, MaxPlaceholders)} : n \in 0..MaxBars}

FlatIndex == [i \in 1..6 |-> [close |-> R(100)]]

\* The other FinMind frames: (df_inst, df_margin, df_rev, df_per, df_index).
SideFrames ==
    {[inst |-> <<>>, margin |-> <<>>, rev |-> <<>>, per |-> <<>>, index |-> <<>>],
     [inst   |-> <<[name |-> "Investment_Trust", buy |-> 200000, sell |-> 0],
                   [name |-> "Foreign_Investor", buy |-> 600000, sell |-> 0]>>,
      margin |-> <<1000, 900>>,
      rev    |-> <<[revenue_year_growth_rate |-> R(25), revenue_month_growth_rate |-> R(1)]>>,
      per    |-> <<[PER |-> R(15)]>>,
      index  |-> FlatIndex]}

\* Sidebar widgets: capital in units of 10,000 (an unbounded number input)
\* and the risk slider (1.0 to 5.0).
CapitalChoices == {-100, 100}
RiskChoices == {R(2), R(5)}

\* Wall clocks relative to the last trade date d: a Saturday, a weekday
\* holiday and a trading session.
Clocks(d) ==
    {[today |-> d,     weekday |-> 5, minute |-> HHMM(11, 0)],
     [today |-> d + 1, weekday |-> 0, minute |-> HHMM(11, 0)],
     [today |-> d,     weekday |-> 0, minute |-> HHMM(11, 0)]}

Info(z, y) == [z |-> z, y |-> y, v |-> <<"1", ",", "5", "0", "0">>]

\* What the exchange endpoint answers.
Answers ==
    {[kind |-> "fail"],
     [kind |-> "json", msgArray |-> <<>>],
     [kind |-> "json", msgArray |-> <<Info(<<"-">>, <<"-">>)>>],
     [kind |-> "json", msgArray |-> <<Info(<<"-">>, <<"1", "2">>)>>],
     [kind |-> "json", msgArray |-> <<Info(<<"0">>, <<"-">>)>>],
     [kind |-> "json", msgArray |-> <<Info(<<"-", "5">>, <<"9", "5">>)>>],
     [kind |-> "json", msgArray |-> <<Info(<<"0", ".", "0", "1">>, <<"9", "5">>)>>],
     [kind |-> "json", msgArray |-> <<Info(<<"1", "0", "0">>, <<"9", "5">>)>>],
     [kind |-> "json", msgArray |-> <<Info(<<"1", ",", "0", "0", "0">>, <<"9", "5">>)>>]}

NoRequest == [kind |-> "none"]

(***************************************************************************)
(* State                                                                   *)
(***************************************************************************)
VARIABLES
    pc,              \* idle, fetched, prepared, done
    total_capital, risk_per_trade,
    df_raw, df_inst, df_margin, df_rev, df_per, df_index,
    df, hist_last, clock, m_code,
    answer, rt_success, current_price, rt_diff, current_vol,
    score, action, plan,
    outcome          \* "", "plan", "no data" (line 103), "failed" (line 296)

inputs  == <<df_raw, df_inst, df_margin, df_rev, df_per, df_index>>
widgets == <<total_capital, risk_per_trade>>
frame   == <<df, hist_last, clock, m_code>>
quote   == <<answer, rt_success, current_price, rt_diff, current_vol>>
result  == <<score, action, plan>>
vars    == <<pc, widgets, inputs, frame, quote, result, outcome>>

NoClock == [today |-> 0, weekday |-> 0, minute |-> 0]

Blank ==
    /\ df_raw = <<>> /\ df_inst = <<>> /\ df_margin = <<>>
    /\ df_rev = <<>> /\ df_per = <<>> /\ df_index = <<>>
    /\ df = <<>> /\ hist_last = <<>> /\ clock = NoClock /\ m_code = ""
    /\ answer = NoRequest /\ rt_success = FALSE /\ current_price = NaN
    /\ rt_diff = R(0) /\ current_vol = NaN
    /\ score = 0 /\ action = <<>> /\ plan = <<>>
    /\ outcome = ""

Init ==
    /\ pc = "idle"
    /\ total_capital = 100
    /\ risk_per_trade = R(2)
    /\ Blank

(***************************************************************************)
(* Operations                                                              *)
(***************************************************************************)
\* Sidebar: the capital number input (line 71).
SetCapital ==
    /\ pc = "idle"
    /\ \E c \in CapitalChoices \ {total_capital} : total_capital' = c
    /\ UNCHANGED <<pc, risk_per_trade, inputs, frame, quote, result, outcome>>

\* Sidebar: the risk slider (line 72).
SetRisk ==
    /\ pc = "idle"
    /\ \E r \in RiskChoices \ {risk_per_trade} : risk_per_trade' = r
    /\ UNCHANGED <<pc, total_capital, inputs, frame, quote, result, outcome>>

\* The form is submitted and the provider's frames arrive (lines 84-103).
Submit ==
    /\ pc = "idle"
    /\ \E raw \in DailyFrames, side \in SideFrames :
          /\ df_raw' = raw
          /\ df_inst' = side.inst /\ df_margin' = side.margin /\ df_rev' = side.rev
          /\ df_per' = side.per /\ df_index' = side.index
          /\ IF raw = <<>>
             THEN pc' = "done" /\ outcome' = "no data"
             ELSE pc' = "fetched" /\ outcome' = ""
    /\ UNCHANGED <<widgets, frame, quote, result>>

\* Cleaning, the last row, the market status and the indicators (lines 106-127).
Prepare ==
    /\ pc = "fetched"
    /\ LET cleaned == CleanRows(df_raw)
       IN  IF cleaned = <<>>
           THEN /\ pc' = "done" /\ outcome' = "failed"
                /\ UNCHANGED frame
           ELSE /\ \E c \in Clocks(cleaned[Len(cleaned)].date) :
                      /\ clock' = c
                      /\ m_code' = get_detailed_market_status(c, cleaned[Len(cleaned)].date)
                /\ hist_last' = cleaned[Len(cleaned)]
                /\ df' = WithIndicators(cleaned)
                /\ pc' = "prepared"
                /\ UNCHANGED outcome
    /\ UNCHANGED <<widgets, inputs, quote, result>>

\* Score, conclusion and plan for a price, a volume and a market status.
Decision(price, volume, code) ==
    LET sc == Score(df, hist_last, price, volume, df_inst, df_margin, df_rev, df_per, df_index)
        pv == Pivot(df)
    IN  [score  |-> sc,
         action |-> Action(price, pv, Bias20(hist_last, price), sc, code),
         plan   |-> TradePlan(hist_last, price, pv, sc, total_capital, risk_per_trade)]

\* The live quote (lines 130-145; no request is made when the market is
\* closed), then diagnosis, conclusion and trade plan (lines 148-275), or
\* the handler of line 295 when an index is out of range.
Analyse ==
    /\ pc = "prepared"
    /\ \E a \in (IF HasClosed(m_code) THEN {NoRequest} ELSE Answers) :
       \E q \in {LiveQuote(m_code, a, hist_last)} :
          /\ answer' = a
          /\ rt_success' = q.rt_success
          /\ current_price' = q.current_price
          /\ rt_diff' = q.rt_diff
          /\ current_vol' = q.current_vol
          /\ IF RaisesIndexError(df, df_index)
             THEN /\ outcome' = "failed"
                  /\ UNCHANGED result
             ELSE \E d \in {Decision(q.current_price, q.current_vol, m_code)} :
                     /\ score' = d.score /\ action' = d.action /\ plan' = d.plan
                     /\ outcome' = "plan"
    /\ pc' = "done"
    /\ UNCHANGED <<widgets, inputs, frame>>

\* A widget interaction reruns the script with the form not submitted.
Rerun ==
    /\ pc = "done"
    /\ pc' = "idle"
    /\ df_raw' = <<>> /\ df_inst' = <<>> /\ df_margin' = <<>>
    /\ df_rev' = <<>> /\ df_per' = <<>> /\ df_index' = <<>>
    /\ df' = <<>> /\ hist_last' = <<>> /\ clock' = NoClock /\ m_code' = ""
    /\ answer' = NoRequest /\ rt_success' = FALSE /\ current_price' = NaN
    /\ rt_diff' = R(0) /\ current_vol' = NaN
    /\ score' = 0 /\ action' = <<>> /\ plan' = <<>>
    /\ outcome' = ""
    /\ UNCHANGED widgets

Next == SetCapital \/ SetRisk \/ Submit \/ Prepare \/ Analyse \/ Rerun

Spec == Init /\ [][Next]_vars

(***************************************************************************)
(* Properties                                                              *)
(***************************************************************************)
HasPlan == pc = "done" /\ outcome = "plan"

\* The quote block (lines 130-145) has run.
Quoted == pc = "done" /\ df # <<>>

\* risk_budget = total_capital x 10000 x risk_per_trade / 100
risk_budget == RMul(R(total_capital * 10000), RDiv(risk_per_trade, R(100)))

\* The script widens no stop and sizes no leg by a slippage buffer.
slippage_buffer == R(0)

\* lots x (entry - stop + slippage_buffer) x shares_per_lot
RiskAtStop(lots, entry, stop) ==
    RMul(RMul(R(lots), RAdd(RSub(entry, stop), slippage_buffer)), R(1000))

\* C1: for every sized leg, lots x (entry - stop + slippage_buffer) x 1000 is
\* at most risk_budget, for every capital amount, risk percentage and price.
SizingBound ==
    HasPlan =>
        /\ RLe(RiskAtStop(plan.lots_brk, plan.entry, plan.stop), risk_budget)
        /\ RLe(RiskAtStop(plan.lots_pb, plan.pb_h, plan.pb_s), risk_budget)

\* The sizing bound restricted to a capital that is not negative.
SizingBoundNonNegativeCapital == total_capital >= 0 => SizingBound

\* p is an integer multiple of the tick size at p itself.
OnOwnTick(p) == RDiv(p, tick_size(p))[2] = 1

PlanPrices ==
    {plan.entry, plan.stop, plan.target, plan.pb_l, plan.pb_h, plan.pb_s, plan.pb_target}

\* C2: every price the plan computes for a leg is an integer multiple of
\* tick_size evaluated at that price itself.
TickInvariant == HasPlan => \A p \in PlanPrices : OnOwnTick(p)

\* The price a quote carries: the last trade z, else the reference price y.
QuotedPrice(info) ==
    PyOr(safe_float(RowGet(info, "z")), safe_float(RowGet(info, "y")))

QuoteValid(a) ==
    /\ a.kind = "json"
    /\ a.msgArray # <<>>
    /\ RGt(QuotedPrice(a.msgArray[1]), R(0))

\* C3: whenever the live quote is absent or invalid (no fetch, a failed
\* request, an empty msgArray, a price that is unparsable, zero or otherwise
\* non-positive), the effective price and volume are the last bar's close and
\* volume and rt_success stays false.
QuoteFallback ==
    (Quoted /\ ~QuoteValid(answer)) =>
        /\ current_price = hist_last.close
        /\ current_vol = R(hist_last.vol)
        /\ rt_success = FALSE

\* C4: a request whose filtered series is shorter than the MA20 window ends
\* in a failure and produces no plan.
InsufficientHistoryFails ==
    (pc = "done" /\ Len(CleanRows(df_raw)) < 20) => outcome # "plan"

\* The History gate of the specification: bar count >= min_history_bars.
min_history_bars == 120
HistoryGate(bars) == Len(bars) >= min_history_bars

\* C5: a leg whose gate fails reports 0 lots; here the History gate.
GateFailureZeroLots ==
    (HasPlan /\ ~HistoryGate(df)) => (plan.lots_brk = 0 /\ plan.lots_pb = 0)

RemoveAt(s, i) == SubSeq(s, 1, i - 1) \o SubSeq(s, i + 1, Len(s))

ZeroVolumeRows == {i \in 1..Len(df_raw) : df_raw[i].Trading_Volume = 0}

\* C6: once the indicators are computed, the indicator columns and hist_last
\* made from a frame holding a zero-volume row (anywhere) are those made from
\* the same frame with that row removed.
ZeroVolumeExcluded ==
    pc = "prepared" =>
        \A i \in ZeroVolumeRows :
            \E c \in {CleanRows(RemoveAt(df_raw, i))} :
                /\ c # <<>>
                /\ WithIndicators(c) = df
                /\ c[Len(c)] = hist_last

\* A zero-volume row sits strictly inside a frame long enough for a plan.
ZeroVolumeExcludedWitness ==
    /\ pc = "prepared"
    /\ Len(df) >= 5
    /\ \E i \in ZeroVolumeRows : 1 < i /\ i < Len(df_raw)

\* C7: the Pullback target is strictly above the Pullback entry (the buy
\* zone, up to pb_h), so the leg's reward distance is positive.
PullbackTargetAboveEntry == HasPlan => RGt(plan.pb_target, plan.pb_h)

SignedVolume(prev, cur) ==
    IF RGt(cur.close, prev.close) THEN cur.vol
    ELSE IF RLt(cur.close, prev.close) THEN -cur.vol
    ELSE 0

\* C8: once the indicators are computed, the first row's OBV is 0 and every later row's OBV exceeds the
\* previous row's by +vol, -vol or 0 as the close rose, fell or stayed.
OBVDecomposition ==
    pc = "prepared" =>
        /\ df[1].OBV = 0
        /\ \A t \in 2..Len(df) : df[t].OBV - df[t - 1].OBV = SignedVolume(df[t - 1], df[t])

\* A frame with a rising, a falling and an unchanged close.
OBVDecompositionWitness ==
    /\ pc = "prepared"
    /\ \E t \in 2..Len(df) : RGt(df[t].close, df[t - 1].close)
    /\ \E t \in 2..Len(df) : RLt(df[t].close, df[t - 1].close)
    /\ \E t \in 2..Len(df) : df[t].close = df[t - 1].close

\* What a run at wall clock c shows for the frames, quote and widgets of
\* this run: (current price, score, conclusion, plan).
OutputAt(c) ==
    LET code == get_detailed_market_status(c, hist_last.date)
        q    == LiveQuote(code, answer, hist_last)
        d    == Decision(q.current_price, q.current_vol, code)
    IN  <<q.current_price, d.score, d.action, d.plan>>

\* The other clocks at which this run's quote (if any was fetched) decides
\* the run.
ComparableClocks ==
    {c \in Clocks(hist_last.date) \ {clock} :
        answer # NoRequest \/ HasClosed(get_detailed_market_status(c, hist_last.date))}

PlanOrdered ==
    (HasPlan /\ RGe(current_price, R(1))) =>
        /\ RLt(plan.stop, plan.entry) /\ RLt(plan.entry, plan.target)
        /\ RLt(plan.pb_s, plan.pb_l) /\ RLt(plan.pb_l, plan.pb_h)
        /\ RGt(RSub(plan.entry, plan.stop), R(0))
        /\ RGt(RSub(plan.pb_h, plan.pb_s), R(0))

\* A sized plan priced from a live quote in the top tick tier.
PlanOrderedWitness ==
    HasPlan /\ rt_success /\ RGe(current_price, R(1000)) /\ plan.lots_brk # 0

====
